---- MODULE Spec2Model ----
(***************************************************************************)
(* Model of regolix's native layer (src/native/regolix/src/lib.rs):        *)
(*   - the rule scanner parse_rules / extract_rule_name / find_rule_end,   *)
(*     run one loop iteration per step over a source text;                 *)
(*   - the engine resource with its policy store, add_policy and get_rules.*)
(* Text is a sequence of one-character strings; a line is such a sequence  *)
(* without "\n".                                                           *)
(***************************************************************************)
EXTENDS Integers, Sequences, FiniteSets, TLC

VARIABLES
    source,            \* parse_rules: the text being scanned
    lines,             \* parse_rules: source.lines().collect()
    i,                 \* parse_rules: 0-based line cursor
    pending_comments,  \* parse_rules: Vec<String> of pending comment texts
    rules,             \* parse_rules: Vec<RuleInfo> built so far
    pc,                \* parse_rules: "start" | "loop" | "done"
    engine_lock,       \* EngineResource.engine: the RwLock's holders
    policies_lock,     \* EngineResource.policies: the RwLock's holders
    policies,          \* EngineResource.policies: HashMap<String, String>
    engine_policies,   \* the names the regorus Engine has accepted
    epc,               \* per calling process: where it stands in its NIF call
    call,              \* per calling process: the arguments of its call
    ret,               \* per calling process: the value its last call returned
    last_registered,   \* history: name -> text of the latest registration
    last_outcome,      \* history: name -> how the engine answered that registration
    seen,              \* history: per process, its last get_rules result, kept
                       \*   until the next policies.insert of any process
    line_arg,          \* extract_rule_name: the line it is called with
    name_ret           \* extract_rule_name: the Option it returned

scanVars == <<source, lines, i, pending_comments, rules, pc>>

engineVars == <<engine_lock, policies_lock, policies, engine_policies,
                epc, call, ret, last_registered, last_outcome, seen>>

nameVars == <<line_arg, name_ret>>

vars == <<source, lines, i, pending_comments, rules, pc,
          engine_lock, policies_lock, policies, engine_policies,
          epc, call, ret, last_registered, last_outcome, seen,
          line_arg, name_ret>>

----------------------------------------------------------------------------
(* Bounds of the model *)

\* Largest number of lines of a scanned source text.
MaxLines == 4

----------------------------------------------------------------------------
(* Characters and strings *)

Whitespace == {" ", "\t"}

Alnum == {"a", "b", "c", "d", "e", "f", "i", "l", "m", "n", "o", "p", "r",
          "s", "t", "u", "v", "w", "x", "y", "k", "g", "1", "2"}

\* char::is_alphanumeric() || c == '_'
IsIdentChar(c) == c \in Alnum \/ c = "_"

\* char::is_whitespace()
IsWhitespace(c) == c \in Whitespace

\* str::starts_with(prefix)
StartsWith(s, prefix) ==
    /\ Len(s) >= Len(prefix)
    /\ \A k \in 1..Len(prefix) : s[k] = prefix[k]

\* The suffix of s from 1-based position k on.
Drop(s, k) == SubSeq(s, k, Len(s))

\* Number of leading whitespace characters of s, counted from k.
RECURSIVE LeadingWhitespace(_, _)
LeadingWhitespace(s, k) ==
    IF k < Len(s) /\ IsWhitespace(s[k + 1]) THEN LeadingWhitespace(s, k + 1) ELSE k

\* Number of trailing whitespace characters of s, counted from k.
RECURSIVE TrailingWhitespace(_, _)
TrailingWhitespace(s, k) ==
    IF k < Len(s) /\ IsWhitespace(s[Len(s) - k]) THEN TrailingWhitespace(s, k + 1) ELSE k

\* Number of leading identifier characters of s, counted from k.
RECURSIVE LeadingIdent(_, _)
LeadingIdent(s, k) ==
    IF k < Len(s) /\ IsIdentChar(s[k + 1]) THEN LeadingIdent(s, k + 1) ELSE k

\* Number of leading '#' characters of s, counted from k.
RECURSIVE LeadingHashes(_, _)
LeadingHashes(s, k) ==
    IF k < Len(s) /\ s[k + 1] = "#" THEN LeadingHashes(s, k + 1) ELSE k

\* str::trim_start()
TrimStart(s) == Drop(s, LeadingWhitespace(s, 0) + 1)

\* str::trim_end()
TrimEnd(s) == SubSeq(s, 1, Len(s) - TrailingWhitespace(s, 0))

\* str::trim()
Trim(s) == TrimEnd(TrimStart(s))

\* str::trim_start_matches('#')
TrimStartHashes(s) == Drop(s, LeadingHashes(s, 0) + 1)

\* str::contains(c)
Contains(s, c) == \E k \in 1..Len(s) : s[k] = c

\* str::lines(): split at "\n"; a final empty piece (after a trailing
\* newline, or of the empty text) is no line.
RECURSIVE SplitInclusive(_, _, _)
SplitInclusive(s, k, cur) ==
    IF k > Len(s) THEN (IF cur = <<>> THEN <<>> ELSE <<cur>>)
    ELSE IF s[k] = "\n" THEN <<cur>> \o SplitInclusive(s, k + 1, <<>>)
    ELSE SplitInclusive(s, k + 1, Append(cur, s[k]))

Lines(s) == SplitInclusive(s, 1, <<>>)

----------------------------------------------------------------------------
(* extract_rule_name *)

None == <<>>
Some(x) == <<x>>

\* The "default " branch: rest.split(non-identifier char).next()
DefaultRuleName(line) ==
    LET rest == Trim(Drop(line, Len(<<"d","e","f","a","u","l","t"," ">>) + 1))
    IN  Some(SubSeq(rest, 1, LeadingIdent(rest, 0)))

\* Mutant of IsRuleMarker: `if` counts only when a space follows it.
IsRuleMarker_NoIfBrace(rest) ==
    \/ StartsWith(rest, <<":", "=">>)
    \/ StartsWith(rest, <<"=">>)
    \/ StartsWith(rest, <<"i", "f", " ">>)
    \/ StartsWith(rest, <<"c", "o", "n", "t", "a", "i", "n", "s", " ">>)

\* The marker test on what follows the identifier and whitespace.
IsRuleMarker(rest) ==
    \/ StartsWith(rest, <<":", "=">>)
    \/ StartsWith(rest, <<"=">>)
    \/ StartsWith(rest, <<"i", "f", " ">>)
    \/ StartsWith(rest, <<"i", "f", "{">>)
    \/ StartsWith(rest, <<"c", "o", "n", "t", "a", "i", "n", "s", " ">>)

\* The general branch: identifier, whitespace, marker.
PlainRuleName(line) ==
    LET n    == LeadingIdent(line, 0)
        name == SubSeq(line, 1, n)
        rest == TrimStart(Drop(line, n + 1))
    IN  IF n = 0 THEN None
        ELSE IF IsRuleMarker(rest) THEN Some(name)
        ELSE None

extract_rule_name(l) ==
    LET line == Trim(l)
    IN  IF StartsWith(line, <<"d","e","f","a","u","l","t"," ">>)
        THEN DefaultRuleName(line)
        ELSE PlainRuleName(line)

----------------------------------------------------------------------------
(* find_rule_end *)

\* brace_depth after the characters of one line.
RECURSIVE DepthAfter(_, _, _)
DepthAfter(line, k, depth) ==
    IF k > Len(line) THEN depth
    ELSE IF line[k] = "{" THEN DepthAfter(line, k + 1, depth + 1)
    ELSE IF line[k] = "}" THEN DepthAfter(line, k + 1, depth - 1)
    ELSE DepthAfter(line, k + 1, depth)

\* Mutant of find_rule_end: returns the 0-based index i instead of i + 1.
RECURSIVE RuleEndFrom_ZeroBased(_, _, _, _)
RuleEndFrom_ZeroBased(ls, idx, brace_depth, found_open) ==
    IF idx >= Len(ls) THEN Len(ls)
    ELSE LET d == DepthAfter(ls[idx + 1], 1, brace_depth)
             f == found_open \/ Contains(ls[idx + 1], "{")
         IN  IF f /\ d = 0 THEN idx
             ELSE RuleEndFrom_ZeroBased(ls, idx + 1, d, f)

find_rule_end_ZeroBased(ls, start_idx) ==
    RuleEndFrom_ZeroBased(ls, start_idx, 0, FALSE)

\* Mutant of find_rule_end: the fallback is the last index, lines.len() - 1.
RECURSIVE RuleEndFrom_LastIndex(_, _, _, _)
RuleEndFrom_LastIndex(ls, idx, brace_depth, found_open) ==
    IF idx >= Len(ls) THEN Len(ls) - 1
    ELSE LET d == DepthAfter(ls[idx + 1], 1, brace_depth)
             f == found_open \/ Contains(ls[idx + 1], "{")
         IN  IF f /\ d = 0 THEN idx + 1
             ELSE RuleEndFrom_LastIndex(ls, idx + 1, d, f)

find_rule_end_LastIndex(ls, start_idx) ==
    RuleEndFrom_LastIndex(ls, start_idx, 0, FALSE)

\* The for loop over lines from 0-based index idx, with the loop's state.
RECURSIVE RuleEndFrom(_, _, _, _)
RuleEndFrom(ls, idx, brace_depth, found_open) ==
    IF idx >= Len(ls) THEN Len(ls)
    ELSE LET d == DepthAfter(ls[idx + 1], 1, brace_depth)
             f == found_open \/ Contains(ls[idx + 1], "{")
         IN  IF f /\ d = 0 THEN idx + 1
             ELSE RuleEndFrom(ls, idx + 1, d, f)

\* Mutant of find_rule_end: the depth is tested after every character, not
\* after every line.
RECURSIVE DepthZeroWithin(_, _, _)
DepthZeroWithin(line, k, depth) ==
    IF k > Len(line) THEN FALSE
    ELSE IF line[k] = "{" THEN DepthZeroWithin(line, k + 1, depth + 1)
    ELSE IF line[k] = "}" THEN depth = 1 \/ DepthZeroWithin(line, k + 1, depth - 1)
    ELSE DepthZeroWithin(line, k + 1, depth)

RECURSIVE RuleEndFrom_PerChar(_, _, _)
RuleEndFrom_PerChar(ls, idx, brace_depth) ==
    IF idx >= Len(ls) THEN Len(ls)
    ELSE IF DepthZeroWithin(ls[idx + 1], 1, brace_depth) THEN idx + 1
    ELSE RuleEndFrom_PerChar(ls, idx + 1, DepthAfter(ls[idx + 1], 1, brace_depth))

find_rule_end_PerChar(ls, start_idx) == RuleEndFrom_PerChar(ls, start_idx, 0)

find_rule_end(ls, start_idx) == RuleEndFrom(ls, start_idx, 0, FALSE)

----------------------------------------------------------------------------
(* parse_rules: one loop iteration *)

\* The text of a comment line after the marker, stripped.
CommentText(line) == Trim(TrimStartHashes(line))

IsDividerChar(c) == c = "=" \/ c = "-" \/ IsWhitespace(c)

\* comment_text.chars().all(...)
IsDivider(text) == \A k \in 1..Len(text) : IsDividerChar(text[k])

IsCommentLine(line) == StartsWith(line, <<"#">>)

IsImportOrPackage(line) ==
    \/ StartsWith(line, <<"i", "m", "p", "o", "r", "t", " ">>)
    \/ StartsWith(line, <<"p", "a", "c", "k", "a", "g", "e", " ">>)

\* Mutant of LastOrDefault: the first pending comment, not the last.
LastOrDefault_First(pending) ==
    IF pending = <<>> THEN <<>> ELSE pending[1]

\* pending_comments.last().cloned().unwrap_or_default()
LastOrDefault(pending) ==
    IF pending = <<>> THEN <<>> ELSE pending[Len(pending)]

\* Mutant of RuleEndLine: a single-line rule ends at the index i, not at
\* line_num.
RuleEndLine_NoAdvance(ls, idx, line) ==
    IF Contains(line, "{") THEN find_rule_end(ls, idx) ELSE idx

\* Mutant of RuleEndLine: the brace scan runs for every rule head.
RuleEndLine_AlwaysScan(ls, idx, line) == find_rule_end(ls, idx)

\* The end line of the rule whose head is the trimmed `line` at index idx.
RuleEndLine(ls, idx, line) ==
    IF Contains(line, "{") THEN find_rule_end(ls, idx) ELSE idx + 1

RuleInfo(name, description, start_line, end_line) ==
    [name |-> name, description |-> description,
     start_line |-> start_line, end_line |-> end_line]

\* Mutant of CommentStep: divider comments are pushed like any other.
CommentStep_KeepDividers(ls, st) ==
    [st EXCEPT !.pending = Append(@, CommentText(Trim(ls[st.i + 1]))),
               !.i = @ + 1]

\* Mutant of ClearStep: the line is skipped without pending_comments.clear().
ClearStep_KeepPending(ls, st) == [st EXCEPT !.i = @ + 1]

\* Mutant of RuleStep: the record is put in front of the earlier ones.
RuleStep_Prepend(ls, st) ==
    LET line     == Trim(ls[st.i + 1])
        line_num == st.i + 1
        end_line == RuleEndLine(ls, st.i, line)
    IN  [i       |-> end_line,
         pending |-> <<>>,
         rules   |-> <<RuleInfo(extract_rule_name(line)[1],
                                LastOrDefault(st.pending),
                                line_num, end_line)>> \o st.rules]

\* Mutant of CommentStep: a divider comment empties pending_comments.
CommentStep_DividerClears(ls, st) ==
    LET text == CommentText(Trim(ls[st.i + 1]))
    IN  [st EXCEPT !.pending = IF IsDivider(text) THEN <<>> ELSE Append(@, text),
                   !.i = @ + 1]

\* Mutant of ClearStep: a line that is no rule head is recorded all the same,
\* under the empty name.
ClearStep_RecordsAnyway(ls, st) ==
    [i       |-> st.i + 1,
     pending |-> <<>>,
     rules   |-> Append(st.rules,
                        RuleInfo(<<>>, LastOrDefault(st.pending),
                                 st.i + 1, st.i + 1))]

\* Mutant of RuleStep: the scan goes on at the line after the head, not
\* after end_line.
RuleStep_NoSkip(ls, st) ==
    LET line     == Trim(ls[st.i + 1])
        line_num == st.i + 1
        end_line == RuleEndLine(ls, st.i, line)
    IN  [i       |-> st.i + 1,
         pending |-> <<>>,
         rules   |-> Append(st.rules,
                            RuleInfo(extract_rule_name(line)[1],
                                     LastOrDefault(st.pending),
                                     line_num, end_line))]

\* Mutant of RuleStep: pending_comments is not cleared when the rule is
\* recorded.
RuleStep_KeepPending(ls, st) ==
    LET line     == Trim(ls[st.i + 1])
        line_num == st.i + 1
        end_line == RuleEndLine(ls, st.i, line)
    IN  [i       |-> end_line,
         pending |-> st.pending,
         rules   |-> Append(st.rules,
                            RuleInfo(extract_rule_name(line)[1],
                                     LastOrDefault(st.pending),
                                     line_num, end_line))]

\* The state of the scan loop: [i, pending, rules].
CommentStep(ls, st) ==
    LET text == CommentText(Trim(ls[st.i + 1]))
    IN  [st EXCEPT !.pending = IF IsDivider(text) THEN @ ELSE Append(@, text),
                   !.i = @ + 1]

ClearStep(ls, st) == [st EXCEPT !.pending = <<>>, !.i = @ + 1]

RuleStep(ls, st) ==
    LET line     == Trim(ls[st.i + 1])
        line_num == st.i + 1
        end_line == RuleEndLine(ls, st.i, line)
    IN  [i       |-> end_line,
         pending |-> <<>>,
         rules   |-> Append(st.rules,
                            RuleInfo(extract_rule_name(line)[1],
                                     LastOrDefault(st.pending),
                                     line_num, end_line))]

\* Which branch of the loop body a trimmed line takes.
LineKind(line) ==
    IF IsCommentLine(line) THEN "comment"
    ELSE IF line = <<>> THEN "blank"
    ELSE IF IsImportOrPackage(line) THEN "import"
    ELSE IF extract_rule_name(line) # None THEN "rule"
    ELSE "other"

ScanStep(ls, st) ==
    LET kind == LineKind(Trim(ls[st.i + 1]))
    IN  IF kind = "comment" THEN CommentStep(ls, st)
        ELSE IF kind = "rule" THEN RuleStep(ls, st)
        ELSE ClearStep(ls, st)

\* parse_rules as a function of the text: the loop run to its end.
RECURSIVE ScanFrom(_, _)
ScanFrom(ls, st) ==
    IF st.i < Len(ls) THEN ScanFrom(ls, ScanStep(ls, st)) ELSE st.rules

parse_rules(src) ==
    ScanFrom(Lines(src), [i |-> 0, pending |-> <<>>, rules |-> <<>>])

----------------------------------------------------------------------------
(* The source texts scanned *)

\* The lines the scanned texts are made of.
LineCatalogue ==
    { <<>>,
      <<"#", " ", "d">>,
      <<"#", "}">>,
      <<"#", " ", "=", "-">>,
      <<"#">>,
      <<"p", "a", "c", "k", "a", "g", "e", " ", "p">>,
      <<"i", "m", "p", "o", "r", "t", " ", "d">>,
      <<"d", "e", "f", "a", "u", "l", "t", " ", "x", " ", ":", "=", " ", "1">>,
      <<" ", "a", " ", "i", "f", " ", "{">>,
      <<"}">>,
      <<"b", "=", "}", "{">>,
      <<"e", "=", "{", "}", "}">> }

\* The sequences over S of length at most n.
SeqsUpTo(S, n) == UNION { [1..k -> S] : k \in 0..n }

\* The lines joined by "\n".
RECURSIVE Join(_)
Join(ls) ==
    IF ls = <<>> THEN <<>>
    ELSE IF Len(ls) = 1 THEN ls[1]
    ELSE ls[1] \o <<"\n">> \o Join(Tail(ls))

\* The texts of at most n catalogue lines; a text whose last line is the
\* empty one ends with "\n".
Sources(n) == { Join(ls) : ls \in SeqsUpTo(LineCatalogue, n) }

\* The lines of the texts that try the recognition of rule heads: blank,
\* comment and package lines, comparisons, reference accesses and `default`
\* lines with and without a name.
HeadCatalogue ==
    { <<>>,
      <<"#", " ", "d">>,
      <<"p", "a", "c", "k", "a", "g", "e", " ", "p">>,
      <<"x", " ", "=", "=", " ", "1">>,
      <<"x", " ", "!", "=", " ", "1">>,
      <<"x", ".", "y">>,
      <<"x", "[", "k", "]">>,
      <<"d", "e", "f", "a", "u", "l", "t", " ", ":", "=", " ", "1">>,
      <<"d", "e", "f", "a", "u", "l", "t", " ", "x", " ", ":", "=", " ", "1">> }

HeadSources(n) == { Join(ls) : ls \in SeqsUpTo(HeadCatalogue, n) }

----------------------------------------------------------------------------
(* The engine resource: native_new, native_add_policy, native_get_rules *)

\* The processes calling into one engine resource.
Procs == {"p1", "p2"}

\* The policy names registered.
PolicyNames == {"n1", "n2"}

\* The policy texts registered.
PolicyTexts ==
    { Join(<< <<"#", " ", "d">>,
              <<"d", "e", "f", "a", "u", "l", "t", " ", "x", " ", ":", "=", " ", "1">> >>),
      Join(<< <<" ", "a", " ", "i", "f", " ", "{">>,
              <<"x", " ", "=", "=", " ", "1">>,
              <<"}">> >>),
      Join(<< <<"b", "=", "}", "{">>, <<>> >>) }

NoProc == "none"

\* The arguments of a call, and no call.
Call(op, name, text) == [op |-> op, name |-> name, source |-> text]
NoCall == Call("none", "", <<>>)

\* What a call returned: Ok(()), Err((atom, message)), Ok(term); nothing yet.
Returned(tag, value) == [tag |-> tag, value |-> value]
NoReturn == Returned("none", <<>>)

\* An RwLock nobody holds.
Unlocked == [writer |-> NoProc, readers |-> {}]

\* RwLock::write() can return: no holder.
CanWrite(lock) == lock.writer = NoProc /\ lock.readers = {}

\* RwLock::read() can return: no writer.
CanRead(lock) == lock.writer = NoProc

\* Mutant of HashMapInsert: an existing entry is kept (entry().or_insert()).
HashMapInsert_KeepOld(m, k, v) ==
    [x \in DOMAIN m \cup {k} |-> IF x \in DOMAIN m THEN m[x] ELSE v]

\* HashMap::insert(k, v)
HashMapInsert(m, k, v) ==
    [x \in DOMAIN m \cup {k} |-> IF x = k THEN v ELSE m[x]]

\* The map native_get_rules builds: policy_name => parse_rules(source).
GetRulesMap(m) == [n \in DOMAIN m |-> parse_rules(m[n])]

\* What each of the other NIFs does with resource.engine: the lock it takes
\* and what it can return once it holds the lock. None of them names
\* resource.policies.
native_set_input ==
    [lock |-> "write",
     results |-> {Returned("ok", <<>>), Returned("error", "json_error")}]

native_add_data ==
    [lock |-> "write",
     results |-> {Returned("ok", <<>>), Returned("error", "json_error"),
                  Returned("error", "engine_error")}]

native_eval_query ==
    [lock |-> "write",
     results |-> {Returned("ok", "value"), Returned("ok", "undefined"),
                  Returned("error", "eval_error")}]

native_get_packages ==
    [lock |-> "read",
     results |-> {Returned("ok", "packages"), Returned("error", "engine_error")}]

native_clear_data == [lock |-> "write", results |-> {Returned("ok", <<>>)}]

native_enable_coverage == [lock |-> "write", results |-> {Returned("ok", <<>>)}]

native_get_coverage_report ==
    [lock |-> "read",
     results |-> {Returned("ok", "report"), Returned("error", "engine_error")}]

native_clear_coverage == [lock |-> "write", results |-> {Returned("ok", <<>>)}]

\* The NIFs that work on the engine alone, by name.
EngineOps ==
    [set_input           |-> native_set_input,
     add_data            |-> native_add_data,
     eval_query          |-> native_eval_query,
     get_packages        |-> native_get_packages,
     clear_data          |-> native_clear_data,
     enable_coverage     |-> native_enable_coverage,
     get_coverage_report |-> native_get_coverage_report,
     clear_coverage      |-> native_clear_coverage]

\* native_new(): a fresh resource, no call under way.
EngineStart ==
    /\ engine_lock = Unlocked
    /\ policies_lock = Unlocked
    /\ policies = <<>>
    /\ engine_policies = {}
    /\ epc = [p \in Procs |-> "idle"]
    /\ call = [p \in Procs |-> NoCall]
    /\ ret = [p \in Procs |-> NoReturn]
    /\ last_registered = <<>>
    /\ last_outcome = <<>>
    /\ seen = [p \in Procs |-> NoReturn]

----------------------------------------------------------------------------
(* The lines extract_rule_name is called with *)

\* A line is made of leading whitespace, a candidate identifier, a gap, a
\* remainder and trailing whitespace, each possibly empty.
HeadLeads == { <<>>, <<" ">> }

HeadIdents == { <<>>, <<"a">>, <<"a", "l", "l", "o", "w">>, <<"x", "_", "1">>, <<"d", "e", "f", "a", "u", "l", "t">> }

HeadGaps == { <<>>, <<" ">>, <<" ", "\t">> }

HeadRests ==
    { <<":", "=", " ", "1">>,
      <<"=", " ", "1">>,
      <<"=", "=", " ", "1">>,
      <<"i", "f", " ", "{">>,
      <<"i", "f", "{">>,
      <<"i", "f">>,
      <<"i", "f", "\t", "{">>,
      <<"i", "f", "f", " ", "{">>,
      <<"c", "o", "n", "t", "a", "i", "n", "s", " ", "x">>,
      <<"c", "o", "n", "t", "a", "i", "n", "s">>,
      <<"{">>,
      <<"(", "x", ")", " ", ":", "=", " ", "1">>,
      <<".", "y">>,
      <<"[", "k", "]">>,
      <<>>,
      <<"!", "=", " ", "1">>,
      <<"x", " ", ":", "=", " ", "1">> }

HeadTrails == { <<>>, <<" ">> }

HeadLines ==
    { lead \o id \o gap \o rest \o trail :
        lead \in HeadLeads, id \in HeadIdents, gap \in HeadGaps,
        rest \in HeadRests, trail \in HeadTrails }

\* extract_rule_name has not been called yet.
NotCalled == << <<"?">>, <<"?">> >>

NameStart ==
    /\ line_arg = <<>>
    /\ name_ret = NotCalled

----------------------------------------------------------------------------
(* The scanner as a state machine *)

ScanState == [i |-> i, pending |-> pending_comments, rules |-> rules]

Init ==
    /\ source \in Sources(MaxLines)
    /\ lines = <<>>
    /\ i = 0
    /\ pending_comments = <<>>
    /\ rules = <<>>
    /\ pc = "start"
    /\ EngineStart
    /\ NameStart

\* let lines = source.lines().collect(); and the initial locals
ParseStart ==
    /\ pc = "start"
    /\ lines' = Lines(source)
    /\ i' = 0
    /\ pending_comments' = <<>>
    /\ rules' = <<>>
    /\ pc' = "loop"
    /\ UNCHANGED source
    /\ UNCHANGED engineVars
    /\ UNCHANGED nameVars

Apply(st) ==
    /\ i' = st.i
    /\ pending_comments' = st.pending
    /\ rules' = st.rules
    /\ UNCHANGED <<source, lines, pc>>
    /\ UNCHANGED engineVars
    /\ UNCHANGED nameVars

InLoop == pc = "loop" /\ i < Len(lines)

CurrentLine == Trim(lines[i + 1])

ScanComment ==
    /\ InLoop
    /\ LineKind(CurrentLine) = "comment"
    /\ Apply(CommentStep(lines, ScanState))

ScanBlank ==
    /\ InLoop
    /\ LineKind(CurrentLine) = "blank"
    /\ Apply(ClearStep(lines, ScanState))

ScanImport ==
    /\ InLoop
    /\ LineKind(CurrentLine) = "import"
    /\ Apply(ClearStep(lines, ScanState))

ScanRule ==
    /\ InLoop
    /\ LineKind(CurrentLine) = "rule"
    /\ Apply(RuleStep(lines, ScanState))

ScanOther ==
    /\ InLoop
    /\ LineKind(CurrentLine) = "other"
    /\ Apply(ClearStep(lines, ScanState))

\* while i < lines.len() is false: return rules
ParseReturn ==
    /\ pc = "loop"
    /\ i >= Len(lines)
    /\ pc' = "done"
    /\ UNCHANGED <<source, lines, i, pending_comments, rules>>
    /\ UNCHANGED engineVars
    /\ UNCHANGED nameVars

Next ==
    \/ ParseStart
    \/ ScanComment
    \/ ScanBlank
    \/ ScanImport
    \/ ScanRule
    \/ ScanOther
    \/ ParseReturn

Spec == Init /\ [][Next]_vars

\* The scanner run on the texts that try the recognition of rule heads.
HeadScanInit ==
    /\ source \in HeadSources(MaxLines)
    /\ lines = <<>>
    /\ i = 0
    /\ pending_comments = <<>>
    /\ rules = <<>>
    /\ pc = "start"
    /\ EngineStart
    /\ NameStart

HeadScanSpec == HeadScanInit /\ [][Next]_vars

----------------------------------------------------------------------------
(* The engine resource as a state machine *)

EngineInit ==
    /\ source = <<>>
    /\ lines = <<>>
    /\ i = 0
    /\ pending_comments = <<>>
    /\ rules = <<>>
    /\ pc = "start"
    /\ EngineStart
    /\ NameStart

\* A process calls native_add_policy(resource, name, source).
CallAddPolicy(p) ==
    /\ epc[p] = "idle"
    /\ \E name \in PolicyNames, text \in PolicyTexts :
          call' = [call EXCEPT ![p] = Call("add_policy", name, text)]
    /\ epc' = [epc EXCEPT ![p] = "ap_engine_write"]
    /\ ret' = [ret EXCEPT ![p] = NoReturn]
    /\ UNCHANGED <<engine_lock, policies_lock, policies, engine_policies,
                   last_registered, last_outcome, seen>>
    /\ UNCHANGED scanVars
    /\ UNCHANGED nameVars

\* resource.engine.write()
AddPolicyLockEngine(p) ==
    /\ epc[p] = "ap_engine_write"
    /\ CanWrite(engine_lock)
    /\ engine_lock' = [engine_lock EXCEPT !.writer = p]
    /\ epc' = [epc EXCEPT ![p] = "ap_policies_write"]
    /\ UNCHANGED <<policies_lock, policies, engine_policies, call, ret,
                   last_registered, last_outcome, seen>>
    /\ UNCHANGED scanVars
    /\ UNCHANGED nameVars

\* resource.policies.write()
AddPolicyLockPolicies(p) ==
    /\ epc[p] = "ap_policies_write"
    /\ CanWrite(policies_lock)
    /\ policies_lock' = [policies_lock EXCEPT !.writer = p]
    /\ epc' = [epc EXCEPT ![p] = "ap_insert"]
    /\ UNCHANGED <<engine_lock, policies, engine_policies, call, ret,
                   last_registered, last_outcome, seen>>
    /\ UNCHANGED scanVars
    /\ UNCHANGED nameVars

\* policies.insert(name.clone(), source.clone())
AddPolicyInsert(p) ==
    /\ epc[p] = "ap_insert"
    /\ policies' = HashMapInsert(policies, call[p].name, call[p].source)
    /\ last_registered' = (call[p].name :> call[p].source) @@ last_registered
    /\ last_outcome' = (call[p].name :> "pending") @@ last_outcome
    /\ seen' = [q \in Procs |-> NoReturn]
    /\ epc' = [epc EXCEPT ![p] = "ap_engine_add"]
    /\ UNCHANGED <<engine_lock, policies_lock, engine_policies, call, ret>>
    /\ UNCHANGED scanVars
    /\ UNCHANGED nameVars

\* Mutant of AddPolicyEngine: a text the engine rejects is taken out of the
\* store again.
AddPolicyEngine_Rollback(p) ==
    /\ epc[p] = "ap_engine_add"
    /\ \/ /\ engine_policies' = engine_policies \cup {call[p].name}
          /\ ret' = [ret EXCEPT ![p] = Returned("ok", <<>>)]
          /\ last_outcome' = (call[p].name :> "ok") @@ last_outcome
          /\ policies' = policies
       \/ /\ engine_policies' = engine_policies
          /\ ret' = [ret EXCEPT ![p] = Returned("error", "parse_error")]
          /\ last_outcome' = (call[p].name :> "parse_error") @@ last_outcome
          /\ policies' = [n \in DOMAIN policies \ {call[p].name} |-> policies[n]]
    /\ epc' = [epc EXCEPT ![p] = "ap_return"]
    /\ UNCHANGED <<engine_lock, policies_lock, call, last_registered, seen>>
    /\ UNCHANGED scanVars
    /\ UNCHANGED nameVars

\* engine.add_policy(name, source): the regorus engine accepts the text or
\* answers with an error, mapped to parse_error.
AddPolicyEngine(p) ==
    /\ epc[p] = "ap_engine_add"
    /\ \/ /\ engine_policies' = engine_policies \cup {call[p].name}
          /\ ret' = [ret EXCEPT ![p] = Returned("ok", <<>>)]
          /\ last_outcome' = (call[p].name :> "ok") @@ last_outcome
       \/ /\ engine_policies' = engine_policies
          /\ ret' = [ret EXCEPT ![p] = Returned("error", "parse_error")]
          /\ last_outcome' = (call[p].name :> "parse_error") @@ last_outcome
    /\ epc' = [epc EXCEPT ![p] = "ap_return"]
    /\ UNCHANGED <<engine_lock, policies_lock, policies, call, last_registered,
                   seen>>
    /\ UNCHANGED scanVars
    /\ UNCHANGED nameVars

\* Mutant of AddPolicyReturn: the policies guard outlives the call.
AddPolicyReturn_KeepsPoliciesGuard(p) ==
    /\ epc[p] = "ap_return"
    /\ engine_lock' = [engine_lock EXCEPT !.writer = NoProc]
    /\ epc' = [epc EXCEPT ![p] = "idle"]
    /\ UNCHANGED <<policies_lock, policies, engine_policies, call, ret,
                   last_registered, last_outcome, seen>>
    /\ UNCHANGED scanVars
    /\ UNCHANGED nameVars

\* The return: both guards are dropped.
AddPolicyReturn(p) ==
    /\ epc[p] = "ap_return"
    /\ policies_lock' = [policies_lock EXCEPT !.writer = NoProc]
    /\ engine_lock' = [engine_lock EXCEPT !.writer = NoProc]
    /\ epc' = [epc EXCEPT ![p] = "idle"]
    /\ UNCHANGED <<policies, engine_policies, call, ret, last_registered,
                   last_outcome, seen>>
    /\ UNCHANGED scanVars
    /\ UNCHANGED nameVars

\* A process calls native_get_rules(resource).
CallGetRules(p) ==
    /\ epc[p] = "idle"
    /\ call' = [call EXCEPT ![p] = Call("get_rules", "", <<>>)]
    /\ ret' = [ret EXCEPT ![p] = NoReturn]
    /\ epc' = [epc EXCEPT ![p] = "gr_policies_read"]
    /\ UNCHANGED <<engine_lock, policies_lock, policies, engine_policies,
                   last_registered, last_outcome, seen>>
    /\ UNCHANGED scanVars
    /\ UNCHANGED nameVars

\* resource.policies.read()
GetRulesLock(p) ==
    /\ epc[p] = "gr_policies_read"
    /\ CanRead(policies_lock)
    /\ policies_lock' = [policies_lock EXCEPT !.readers = @ \cup {p}]
    /\ epc' = [epc EXCEPT ![p] = "gr_build"]
    /\ UNCHANGED <<engine_lock, policies, engine_policies, call, ret,
                   last_registered, last_outcome, seen>>
    /\ UNCHANGED scanVars
    /\ UNCHANGED nameVars

\* The loop over policies.iter() and Term::map_from_pairs.
GetRulesBuild(p) ==
    /\ epc[p] = "gr_build"
    /\ ret' = [ret EXCEPT ![p] = Returned("ok", GetRulesMap(policies))]
    /\ seen' = [seen EXCEPT ![p] = Returned("ok", GetRulesMap(policies))]
    /\ epc' = [epc EXCEPT ![p] = "gr_return"]
    /\ UNCHANGED <<engine_lock, policies_lock, policies, engine_policies, call,
                   last_registered, last_outcome>>
    /\ UNCHANGED scanVars
    /\ UNCHANGED nameVars

\* The return: the read guard is dropped.
GetRulesReturn(p) ==
    /\ epc[p] = "gr_return"
    /\ policies_lock' = [policies_lock EXCEPT !.readers = @ \ {p}]
    /\ epc' = [epc EXCEPT ![p] = "idle"]
    /\ UNCHANGED <<engine_lock, policies, engine_policies, call, ret,
                   last_registered, last_outcome, seen>>
    /\ UNCHANGED scanVars
    /\ UNCHANGED nameVars

\* A process calls one of the NIFs that work on the engine alone.
CallEngineOp(p) ==
    /\ epc[p] = "idle"
    /\ \E op \in DOMAIN EngineOps :
          call' = [call EXCEPT ![p] = Call(op, "", <<>>)]
    /\ ret' = [ret EXCEPT ![p] = NoReturn]
    /\ epc' = [epc EXCEPT ![p] = "eo_engine_lock"]
    /\ UNCHANGED <<engine_lock, policies_lock, policies, engine_policies,
                   last_registered, last_outcome, seen>>
    /\ UNCHANGED scanVars
    /\ UNCHANGED nameVars

\* resource.engine.write() or resource.engine.read()
EngineOpLock(p) ==
    /\ epc[p] = "eo_engine_lock"
    /\ IF EngineOps[call[p].op].lock = "write"
       THEN /\ CanWrite(engine_lock)
            /\ engine_lock' = [engine_lock EXCEPT !.writer = p]
       ELSE /\ CanRead(engine_lock)
            /\ engine_lock' = [engine_lock EXCEPT !.readers = @ \cup {p}]
    /\ epc' = [epc EXCEPT ![p] = "eo_run"]
    /\ UNCHANGED <<policies_lock, policies, engine_policies, call, ret,
                   last_registered, last_outcome, seen>>
    /\ UNCHANGED scanVars
    /\ UNCHANGED nameVars

\* Mutant of EngineOpRun: clear_data empties the policy store as well.
EngineOpRun_ClearsStore(p) ==
    /\ epc[p] = "eo_run"
    /\ \E r \in EngineOps[call[p].op].results :
          ret' = [ret EXCEPT ![p] = r]
    /\ policies' = IF call[p].op = "clear_data" THEN <<>> ELSE policies
    /\ epc' = [epc EXCEPT ![p] = "eo_return"]
    /\ UNCHANGED <<engine_lock, policies_lock, engine_policies, call,
                   last_registered, last_outcome, seen>>
    /\ UNCHANGED scanVars
    /\ UNCHANGED nameVars

\* The body of the NIF under the engine lock: the engine is asked and the
\* answer becomes the result; the policy store is not touched.
EngineOpRun(p) ==
    /\ epc[p] = "eo_run"
    /\ \E r \in EngineOps[call[p].op].results :
          ret' = [ret EXCEPT ![p] = r]
    /\ epc' = [epc EXCEPT ![p] = "eo_return"]
    /\ UNCHANGED <<engine_lock, policies_lock, policies, engine_policies, call,
                   last_registered, last_outcome, seen>>
    /\ UNCHANGED scanVars
    /\ UNCHANGED nameVars

\* The return: the engine guard is dropped.
EngineOpReturn(p) ==
    /\ epc[p] = "eo_return"
    /\ engine_lock' = [engine_lock EXCEPT !.writer = IF @ = p THEN NoProc ELSE @,
                                          !.readers = @ \ {p}]
    /\ epc' = [epc EXCEPT ![p] = "idle"]
    /\ UNCHANGED <<policies_lock, policies, engine_policies, call, ret,
                   last_registered, last_outcome, seen>>
    /\ UNCHANGED scanVars
    /\ UNCHANGED nameVars

EngineNext ==
    \E p \in Procs :
        \/ CallAddPolicy(p)
        \/ AddPolicyLockEngine(p)
        \/ AddPolicyLockPolicies(p)
        \/ AddPolicyInsert(p)
        \/ AddPolicyEngine(p)
        \/ AddPolicyReturn(p)
        \/ CallGetRules(p)
        \/ GetRulesLock(p)
        \/ GetRulesBuild(p)
        \/ GetRulesReturn(p)
        \/ CallEngineOp(p)
        \/ EngineOpLock(p)
        \/ EngineOpRun(p)
        \/ EngineOpReturn(p)

EngineSpec == EngineInit /\ [][EngineNext]_vars

----------------------------------------------------------------------------
(* extract_rule_name as a state machine: one call on one line *)

NameInit ==
    /\ source = <<>>
    /\ lines = <<>>
    /\ i = 0
    /\ pending_comments = <<>>
    /\ rules = <<>>
    /\ pc = "start"
    /\ EngineStart
    /\ line_arg \in HeadLines
    /\ name_ret = NotCalled

\* The call takes the `default ` branch.
ExtractDefault ==
    /\ name_ret = NotCalled
    /\ StartsWith(Trim(line_arg), <<"d", "e", "f", "a", "u", "l", "t", " ">>)
    /\ name_ret' = extract_rule_name(line_arg)
    /\ UNCHANGED line_arg
    /\ UNCHANGED scanVars
    /\ UNCHANGED engineVars

\* The call takes the general branch.
ExtractPlain ==
    /\ name_ret = NotCalled
    /\ ~StartsWith(Trim(line_arg), <<"d", "e", "f", "a", "u", "l", "t", " ">>)
    /\ name_ret' = extract_rule_name(line_arg)
    /\ UNCHANGED line_arg
    /\ UNCHANGED scanVars
    /\ UNCHANGED engineVars

NameNext == ExtractDefault \/ ExtractPlain

NameSpec == NameInit /\ [][NameNext]_vars

----------------------------------------------------------------------------
(* Vocabulary of the properties: the scanned text seen line by line *)

\* The trimmed text of 1-based line k.
LineAt(k) == Trim(lines[k])

\* The occurrences of character c in a line.
CountChar(line, c) == Cardinality({ k \in 1..Len(line) : line[k] = c })

\* Opening minus closing braces over lines a..b.
RECURSIVE Net(_, _)
Net(a, b) ==
    IF a > b THEN 0
    ELSE Net(a, b - 1) + CountChar(lines[b], "{") - CountChar(lines[b], "}")

HasOpen(a, b) == \E k \in a..b : CountChar(lines[k], "{") > 0

\* At the end of line e the braces counted from line s on are balanced and
\* an opening brace has been seen.
ClosesAt(s, e) == HasOpen(s, e) /\ Net(s, e) = 0

\* Within line e the depth counted from line s on comes back to zero on a
\* closing brace (so it was positive just before).
ReturnsToZeroIn(s, e) ==
    \E c \in 1..Len(lines[e]) :
        /\ lines[e][c] = "}"
        /\ Net(s, e - 1) + CountChar(SubSeq(lines[e], 1, c), "{")
                         - CountChar(SubSeq(lines[e], 1, c), "}") = 0

IsDescriptiveComment(k) ==
    /\ k \in 1..Len(lines)
    /\ IsCommentLine(LineAt(k))
    /\ ~IsDivider(CommentText(LineAt(k)))

IsDividerComment(k) ==
    /\ k \in 1..Len(lines)
    /\ IsCommentLine(LineAt(k))
    /\ IsDivider(CommentText(LineAt(k)))

\* Line k is the last line of the range of one of the records.
EndsARecord(k) == \E q \in 1..Len(rules) : rules[q].end_line = k

HeadHasBrace(r) == Contains(lines[r.start_line], "{")

Records == { rules[q] : q \in 1..Len(rules) }

----------------------------------------------------------------------------
(* C1 *)

\* C1: parse_rules terminates on every text and returns without raising:
\* every iteration of the scan loop strictly increases the line cursor (the
\* jump to end_line after a rule is recorded included) and never moves it
\* past the number of lines, so the loop runs at most Len(lines) times; the
\* call returns exactly when the cursor has reached the number of lines,
\* with the records built so far.
C1_CursorAdvancesAndTerminates ==
    [][/\ (pc = "loop" /\ pc' = "loop") => (i' > i /\ i' <= Len(lines))
       /\ (pc = "loop" /\ pc' = "done") => (i = Len(lines) /\ rules' = rules)]_vars

\* A rule with a body has been recorded and the cursor has jumped to its end.
C1_Witness ==
    /\ pc = "done"
    /\ \E r \in Records : r.end_line > r.start_line
    /\ \E k \in 1..Len(lines) : LineAt(k) = <<"}">> /\ ~EndsARecord(k)

----------------------------------------------------------------------------
(* C2 *)

\* C2: the records are in source order: consecutive records have strictly
\* ascending start_line.
C2_AscendingStartLines ==
    \A q \in 1..(Len(rules) - 1) : rules[q].start_line < rules[q + 1].start_line

C2_Witness == pc = "done" /\ Len(rules) >= 3

----------------------------------------------------------------------------
(* C3 *)

\* C3: every record has end_line >= start_line, also when the head line has
\* '}' before '{' or more closing than opening braces.
C3_EndNotBeforeStart ==
    \A r \in Records : r.end_line >= r.start_line

\* Both kinds of head have been recorded: one closing before it opens, one
\* with more closing than opening braces.
C3_Witness ==
    /\ pc = "done"
    /\ \E r \in Records : LineAt(r.start_line) = <<"b", "=", "}", "{">>
    /\ \E r \in Records : /\ HeadHasBrace(r)
                          /\ Net(r.start_line, r.start_line) < 0

----------------------------------------------------------------------------
(* C4 *)

\* C4: whenever get_rules returns, its map has exactly the names registered
\* so far, and under each name the records the scanner produces for the
\* text most recently registered under that name, which is a function of
\* that text alone; the store holds that text and nothing else.
C4_RulesOfLatestRegistration ==
    \A p \in Procs :
        epc[p] = "gr_return" =>
            /\ ret[p].tag = "ok"
            /\ DOMAIN ret[p].value = DOMAIN last_registered
            /\ \A n \in DOMAIN last_registered :
                  ret[p].value[n] = parse_rules(last_registered[n])

\* get_rules returns with both names stored, after an earlier get_rules
\* returned other records for n1: n1 has been registered again with another
\* text in between.
C4_Witness ==
    \E p \in Procs, q \in Procs :
        /\ epc[p] = "gr_return"
        /\ DOMAIN ret[p].value = PolicyNames
        /\ ret[p].value["n1"] # ret[p].value["n2"]
        /\ epc[q] = "idle"
        /\ call[q].op = "get_rules"
        /\ ret[q].tag = "ok"
        /\ "n1" \in DOMAIN ret[q].value
        /\ ret[q].value["n1"] # ret[p].value["n1"]

----------------------------------------------------------------------------
(* C5 *)

\* C5 as stated: when the two lines right above a rule head are non-divider
\* comment lines, the description is the stripped text of the closest one;
\* with no comment line right above, the description is empty.
C5_Original ==
    \A r \in Records :
        /\ (IsDescriptiveComment(r.start_line - 1) /\ IsDescriptiveComment(r.start_line - 2))
              => r.description = CommentText(LineAt(r.start_line - 1))
        /\ (r.start_line = 1 \/ ~IsCommentLine(LineAt(r.start_line - 1)))
              => r.description = <<>>

\* C5 amended: the same, provided the closest comment line is not the line
\* on which an earlier rule's brace range ends (such a line is consumed with
\* that rule and the description is then empty).
C5_LastCommentOnly ==
    \A r \in Records :
        /\ (/\ IsDescriptiveComment(r.start_line - 1)
            /\ IsDescriptiveComment(r.start_line - 2)
            /\ ~EndsARecord(r.start_line - 1))
              => r.description = CommentText(LineAt(r.start_line - 1))
        /\ (/\ IsDescriptiveComment(r.start_line - 1)
            /\ EndsARecord(r.start_line - 1))
              => r.description = <<>>
        /\ (r.start_line = 1 \/ ~IsCommentLine(LineAt(r.start_line - 1)))
              => r.description = <<>>

\* Two different descriptive comment lines right above a recorded head.
C5_Witness ==
    /\ pc = "done"
    /\ \E r \in Records :
          /\ IsDescriptiveComment(r.start_line - 1)
          /\ IsDescriptiveComment(r.start_line - 2)
          /\ ~EndsARecord(r.start_line - 1)
          /\ LineAt(r.start_line - 1) # LineAt(r.start_line - 2)
          /\ r.description # <<>>

----------------------------------------------------------------------------
(* C6 *)

----------------------------------------------------------------------------
(* C7 *)

\* C7: no description is a non-empty text made only of '=', '-' and
\* whitespace, and a rule head with only a divider comment right above it
\* (nothing descriptive before the divider) has the empty description.
C7_NoDividerDescription ==
    \A r \in Records :
        /\ r.description # <<>> => ~IsDivider(r.description)
        /\ (/\ IsDividerComment(r.start_line - 1)
            /\ ~(r.start_line - 2 \in 1..Len(lines)
                 /\ IsCommentLine(LineAt(r.start_line - 2))))
              => r.description = <<>>

C7_Witness ==
    /\ pc = "done"
    /\ \E r \in Records :
          /\ IsDividerComment(r.start_line - 1)
          /\ r.start_line = 2
          /\ r.description = <<>>
----------------------------------------------------------------------------
(* C8 *)

\* The positions of the line feeds of the text.
NewlinePositions == { k \in 1..Len(source) : source[k] = "\n" }

\* Line n of the text read off the characters: what stands between the
\* (n-1)-th and the n-th line feed is exactly lines[n].
IsNthLineOfSource(n) ==
    \E p \in NewlinePositions \cup {0} :
        /\ Cardinality({ k \in NewlinePositions : k <= p }) = n - 1
        /\ p + Len(lines[n]) <= Len(source)
        /\ SubSeq(source, p + 1, p + Len(lines[n])) = lines[n]
        /\ (p + Len(lines[n]) = Len(source) \/ source[p + Len(lines[n]) + 1] = "\n")

\* The identifier a head line names: the run of identifier characters after
\* an optional `default` keyword and whitespace.
HeadIdentifier(line) ==
    LET kw   == <<"d", "e", "f", "a", "u", "l", "t", " ">>
        body == IF StartsWith(line, kw) THEN Trim(Drop(line, Len(kw) + 1)) ELSE line
    IN  SubSeq(body, 1, LeadingIdent(body, 0))

\* The number of lines of a text: one per line feed, plus one for a last
\* line that no line feed ends.
LineCountOfSource ==
    Cardinality(NewlinePositions)
        + (IF source # <<>> /\ source[Len(source)] # "\n" THEN 1 ELSE 0)

C8_Common(r) ==
    /\ r.name = HeadIdentifier(LineAt(r.start_line))
    /\ IsNthLineOfSource(r.start_line)
    /\ r.end_line = r.start_line

\* C8 as stated: a rule head without '{' yields a record with the identifier
\* as name, its 1-based line number (every preceding line counted) as
\* start_line and end_line = start_line; a single descriptive comment line
\* directly above it is the description; a trailing newline adds no line.
C8_Original ==
    /\ pc # "start" => Len(lines) = LineCountOfSource
    /\ \A r \in Records :
          ~HeadHasBrace(r) =>
              /\ C8_Common(r)
              /\ (/\ IsDescriptiveComment(r.start_line - 1)
                  /\ ~IsDescriptiveComment(r.start_line - 2))
                    => r.description = CommentText(LineAt(r.start_line - 1))

\* C8 amended: the same, the comment line directly above supplying the
\* description provided it is not the line on which an earlier rule's brace
\* range ends.
C8_SingleLineRule ==
    /\ pc # "start" => Len(lines) = LineCountOfSource
    /\ \A r \in Records :
          ~HeadHasBrace(r) =>
              /\ C8_Common(r)
              /\ (/\ IsDescriptiveComment(r.start_line - 1)
                  /\ ~IsDescriptiveComment(r.start_line - 2)
                  /\ ~EndsARecord(r.start_line - 1))
                    => r.description = CommentText(LineAt(r.start_line - 1))

\* "package p\n# d\ndefault x := 1\n": one record {x, "d", 3, 3}.
C8_Witness ==
    /\ pc = "done"
    /\ source # <<>>
    /\ source[Len(source)] = "\n"
    /\ Len(lines) = 3
    /\ LineAt(1) = <<"p", "a", "c", "k", "a", "g", "e", " ", "p">>
    /\ rules = << [name |-> <<"x">>, description |-> <<"d">>,
                   start_line |-> 3, end_line |-> 3] >>

----------------------------------------------------------------------------
(* C9 *)

\* C9 as stated: for a head with '{', end_line is the first line at which
\* the depth counter, followed character by character from the head line,
\* comes back to zero after having been positive.
C9_Original ==
    \A r \in Records :
        HeadHasBrace(r) =>
            \A e \in r.start_line..Len(lines) :
                (/\ ReturnsToZeroIn(r.start_line, e)
                 /\ \A f \in r.start_line..(e - 1) : ~ReturnsToZeroIn(r.start_line, f))
                    => r.end_line = e

\* C9 amended: for a head with '{', end_line is the first line, from the
\* head line on, at whose end the depth counter stands at zero with an
\* opening brace seen so far: the counter is looked at once per line, after
\* the line's last character, and need not have been positive.
C9_EndAtFirstBalancedLine ==
    \A r \in Records :
        HeadHasBrace(r) =>
            \A e \in r.start_line..Len(lines) :
                (/\ ClosesAt(r.start_line, e)
                 /\ \A f \in r.start_line..(e - 1) : ~ClosesAt(r.start_line, f))
                    => r.end_line = e

\* `a if {` closed by a balanced '}' three lines later.
C9_Witness ==
    /\ pc = "done"
    /\ \E r \in Records :
          /\ LineAt(r.start_line) = <<"a", " ", "i", "f", " ", "{">>
          /\ r.end_line = r.start_line + 3
          /\ LineAt(r.end_line) = <<"}">>
          /\ \A k \in (r.start_line + 1)..(r.end_line - 1) :
                ~Contains(lines[k], "{") /\ ~Contains(lines[k], "}")

----------------------------------------------------------------------------
(* C10 *)

\* C10: when the brace scan from a rule head reaches the end of the text (no
\* line ends with the depth at zero and an opening brace seen), end_line is
\* the number of the last line and the record is the last one: the cursor
\* stands at the end of the text.
C10_UnclosedRuleRunsToLastLine ==
    \A q \in 1..Len(rules) :
        (/\ HeadHasBrace(rules[q])
         /\ \A e \in rules[q].start_line..Len(lines) : ~ClosesAt(rules[q].start_line, e))
            => /\ rules[q].end_line = Len(lines)
               /\ q = Len(rules)
               /\ i = Len(lines)

\* An unclosed rule whose consumed lines hold what looks like a rule head.
C10_Witness ==
    /\ pc = "done"
    /\ Len(rules) >= 1
    /\ LET r == rules[Len(rules)]
       IN  /\ HeadHasBrace(r)
           /\ \A e \in r.start_line..Len(lines) : ~ClosesAt(r.start_line, e)
           /\ r.end_line >= r.start_line + 2
           /\ \E k \in (r.start_line + 1)..Len(lines) : LineKind(LineAt(k)) = "rule"

----------------------------------------------------------------------------
(* Vocabulary of the properties: a head line read off its characters *)

DefaultKeyword == <<"d", "e", "f", "a", "u", "l", "t", " ">>

\* The length of the longest leading run of identifier characters of t.
IdentLen(t) ==
    CHOOSE n \in 0..Len(t) :
        /\ \A k \in 1..n : IsIdentChar(t[k])
        /\ (n = Len(t) \/ ~IsIdentChar(t[n + 1]))

\* What is left of t after its leading identifier and the whitespace that
\* follows it.
RemainderOf(t) ==
    LET n == IdentLen(t)
        m == CHOOSE m \in n..Len(t) :
                /\ \A k \in (n + 1)..m : IsWhitespace(t[k])
                /\ (m = Len(t) \/ ~IsWhitespace(t[m + 1]))
    IN  SubSeq(t, m + 1, Len(t))

\* rest begins with the text mk.
BeginsWith(rest, mk) ==
    Len(rest) >= Len(mk) /\ SubSeq(rest, 1, Len(mk)) = mk

\* The five markers of a rule head: `:=`, `=`, `if `, `if{`, `contains `.
HeadMarkers ==
    { <<":", "=">>, <<"=">>, <<"i", "f", " ">>, <<"i", "f", "{">>,
      <<"c", "o", "n", "t", "a", "i", "n", "s", " ">> }

HasHeadMarker(rest) == \E mk \in HeadMarkers : BeginsWith(rest, mk)

\* rest begins with an assignment (`:=`, or `=` that is not the first half
\* of the comparison `==`), with `if` or with `contains`.
HasAssignmentIfOrContains(rest) ==
    /\ HasHeadMarker(rest)
    /\ ~BeginsWith(rest, <<"=", "=">>)

\* The 1-based numbers of the lines the scan loop has taken as rule heads,
\* comment lines, and so on.
KindOfLine(k) == LineKind(LineAt(k))

----------------------------------------------------------------------------
(* C11 *)

\* C11: a scanned line whose leading identifier is followed by anything
\* other than an assignment, `if` or `contains` marker (an expression, a
\* comparison such as `x == 1`, a reference access such as `x.y`) produces
\* no record: every record whose head does not start with `default ` has
\* such a marker after its identifier.
C11_NonMarkerLineYieldsNoRecord ==
    \A r \in Records :
        ~BeginsWith(LineAt(r.start_line), DefaultKeyword)
            => HasAssignmentIfOrContains(RemainderOf(LineAt(r.start_line)))

----------------------------------------------------------------------------
(* C12 *)

\* C12: every record's name is a non-empty run of alphanumeric/underscore
\* characters; a line `default := 1`, with no identifier after the keyword,
\* produces no record.
C12_NamesAreIdentifiers ==
    \A r \in Records :
        /\ r.name # <<>>
        /\ \A k \in 1..Len(r.name) : IsIdentChar(r.name[k])

----------------------------------------------------------------------------
(* C13 *)

----------------------------------------------------------------------------
(* C14 *)

\* C14: for a trimmed line that does not start with `default `,
\* extract_rule_name returns the leading identifier exactly when it is
\* non-empty and what follows it and the whitespace after it starts with
\* `:=`, `=`, `if ` , `if{` or `contains `; otherwise it returns nothing.
C14_MarkerDecides ==
    LET t == Trim(line_arg)
    IN  (name_ret # NotCalled /\ ~BeginsWith(t, DefaultKeyword)) =>
            name_ret = IF IdentLen(t) > 0 /\ HasHeadMarker(RemainderOf(t))
                       THEN Some(SubSeq(t, 1, IdentLen(t)))
                       ELSE None

\* `allow if `, whose `if` ends the trimmed line, has been answered with
\* nothing.
C14_Witness ==
    /\ line_arg = <<"a", "l", "l", "o", "w", " ", "i", "f", " ">>
    /\ name_ret = None

----------------------------------------------------------------------------
(* C15 *)

\* The last descriptive comment line above line s, or 0.
LastDescriptiveAbove(s) ==
    LET ks == { k \in 1..(s - 1) : IsDescriptiveComment(k) }
    IN  IF ks = {} THEN 0 ELSE CHOOSE k \in ks : \A j \in ks : j <= k

\* C15: after a rule with range [start_line, end_line] is recorded the scan
\* goes on at line end_line + 1: the ranges of the records lie within
\* 1..Len(lines) and are pairwise disjoint, no record starts inside or at
\* the end of an earlier record's range, and a comment line inside a
\* consumed range gives no description.
C15_RangesDisjoint ==
    /\ \A r \in Records :
          1 <= r.start_line /\ r.start_line <= r.end_line /\ r.end_line <= Len(lines)
    /\ \A q1 \in 1..Len(rules), q2 \in 1..Len(rules) :
          q1 < q2 => rules[q1].end_line < rules[q2].start_line
    /\ (pc = "loop" /\ rules # <<>>) => i >= rules[Len(rules)].end_line
    /\ \A q \in 2..Len(rules) :
          LastDescriptiveAbove(rules[q].start_line) <= rules[q - 1].end_line
              => rules[q].description = <<>>

\* A descriptive comment line lies inside the range of a record, and the
\* next record starts right after that range.
C15_Witness ==
    /\ pc = "done"
    /\ \E q \in 1..(Len(rules) - 1) :
          /\ \E k \in (rules[q].start_line + 1)..(rules[q].end_line - 1) :
                IsDescriptiveComment(k)
          /\ rules[q + 1].start_line = rules[q].end_line + 1
          /\ rules[q + 1].description = <<>>

----------------------------------------------------------------------------
(* C16 *)

\* Every non-empty description is the text of the last descriptive comment
\* line above the head, and that line lies after the range of the record
\* before: no comment line serves two records.
OneSupplierPerRecord ==
    \A q \in 1..Len(rules) :
        rules[q].description # <<>> =>
            LET k == LastDescriptiveAbove(rules[q].start_line)
            IN  /\ k > 0
                /\ CommentText(LineAt(k)) = rules[q].description
                /\ q > 1 => k > rules[q - 1].end_line

\* Two heads with no comment line between them: the second has the empty
\* description.
NoCommentNoDescription ==
    \A q \in 2..Len(rules) :
        (\A k \in (rules[q - 1].start_line + 1)..(rules[q].start_line - 1) :
            ~IsCommentLine(LineAt(k)))
            => rules[q].description = <<>>

\* The loop has just dealt with a line that is not a pending comment: the
\* cursor stands after a line that is no comment line, or after the last
\* line of a recorded rule.
JustClearedPending ==
    /\ pc = "loop"
    /\ i > 0
    /\ (KindOfLine(i) # "comment" \/ EndsARecord(i))

----------------------------------------------------------------------------
(* C17 *)

\* Line k is a descriptive comment and every line from k + 1 to s - 1 is a
\* divider comment, at least one of them.
DescriptiveThenDividers(k, s) ==
    /\ k + 1 < s
    /\ IsDescriptiveComment(k)
    /\ \A j \in (k + 1)..(s - 1) : IsDividerComment(j)

\* C17 as stated: a divider comment line neither adds to nor clears the
\* pending comments: a head preceded by a descriptive comment line and then
\* one or more divider comment lines has that comment as its description.
C17_Original ==
    \A r \in Records :
        \A k \in 1..Len(lines) :
            DescriptiveThenDividers(k, r.start_line)
                => r.description = CommentText(LineAt(k))

\* C17 amended: the same, provided the descriptive comment line is not the
\* line on which an earlier rule's brace range ends (it is then consumed
\* with that rule, and the description is empty).
C17_DividerKeepsPending ==
    \A r \in Records :
        \A k \in 1..Len(lines) :
            DescriptiveThenDividers(k, r.start_line)
                => r.description = IF EndsARecord(k) THEN <<>>
                                   ELSE CommentText(LineAt(k))

\* `# d`, a bare `#`, `# =-` and a head: the record has the description "d".
C17_Witness ==
    /\ pc = "done"
    /\ \E r \in Records :
          /\ r.start_line = 4
          /\ DescriptiveThenDividers(1, 4)
          /\ LineAt(2) = <<"#">>
          /\ LineAt(3) # <<"#">>
          /\ r.description = <<"d">>

----------------------------------------------------------------------------
(* Vocabulary of the properties: the locks and the calls under way *)

\* The locks process p holds.
HoldsEngineWrite(p) == engine_lock.writer = p
HoldsEngineRead(p) == p \in engine_lock.readers
HoldsPoliciesWrite(p) == policies_lock.writer = p
HoldsPoliciesRead(p) == p \in policies_lock.readers

HoldsNothing(p) ==
    /\ ~HoldsEngineWrite(p)
    /\ ~HoldsEngineRead(p)
    /\ ~HoldsPoliciesWrite(p)
    /\ ~HoldsPoliciesRead(p)

\* The call process p has under way can take its next step: the lock it asks
\* for next can be granted, or it asks for none.
CanStep(p) ==
    CASE epc[p] = "idle"              -> FALSE
      [] epc[p] = "ap_engine_write"   -> CanWrite(engine_lock)
      [] epc[p] = "ap_policies_write" -> CanWrite(policies_lock)
      [] epc[p] = "gr_policies_read"  -> CanRead(policies_lock)
      [] epc[p] = "eo_engine_lock"    ->
            IF EngineOps[call[p].op].lock = "write"
            THEN CanWrite(engine_lock) ELSE CanRead(engine_lock)
      [] OTHER                        -> TRUE

\* Process p is reading the store inside get_rules.
ReadingStore(p) == epc[p] \in {"gr_build", "gr_return"}

\* Process p is inside add_policy with the policies write lock taken.
WritingStore(p) == epc[p] \in {"ap_insert", "ap_engine_add", "ap_return"}

----------------------------------------------------------------------------
(* C18 *)

\* C18: with processes calling add_policy, get_rules and the other engine
\* operations on one resource no deadlock is reachable: whenever calls are
\* under way one of them can take its next step, and each call under way
\* that waits for a lock waits for one whose holder can take its next step.
\* add_policy is the only call that holds two locks and it holds the engine
\* lock whenever it holds the policies lock; get_rules holds only the
\* policies lock, in shared mode; a call that has returned holds no lock;
\* get_rules never reads the store while an add_policy holds the policies
\* write lock.
C18_NoDeadlock ==
    /\ (\E p \in Procs : epc[p] # "idle")
          => \E p \in Procs : epc[p] # "idle" /\ CanStep(p)
    /\ \A p \in Procs :
          (epc[p] # "idle" /\ ~CanStep(p))
              => \E q \in Procs \ {p} : ~HoldsNothing(q) /\ CanStep(q)
    /\ \A p \in Procs :
          /\ HoldsPoliciesWrite(p)
                => HoldsEngineWrite(p) /\ call[p].op = "add_policy"
          /\ HoldsPoliciesRead(p)
                => /\ call[p].op = "get_rules"
                   /\ ~HoldsEngineWrite(p) /\ ~HoldsEngineRead(p)
          /\ (HoldsEngineWrite(p) \/ HoldsEngineRead(p))
                => call[p].op \in DOMAIN EngineOps \cup {"add_policy"}
          /\ epc[p] = "idle" => HoldsNothing(p)
    /\ \A p \in Procs, q \in Procs :
          ReadingStore(p) => ~WritingStore(q) /\ ~HoldsPoliciesWrite(q)

\* An add_policy holds the engine lock and waits for the policies lock,
\* which a get_rules holds in shared mode.
C18_Witness ==
    \E p \in Procs, q \in Procs :
        /\ epc[p] = "ap_policies_write"
        /\ HoldsEngineWrite(p)
        /\ epc[q] = "gr_build"
        /\ HoldsPoliciesRead(q)
        /\ ~CanStep(p)

----------------------------------------------------------------------------
(* C19 *)

\* C19: add_policy writes the text into the store before the engine parses
\* it: from the insert to the return the store holds the call's text under
\* the call's name, whether the engine then accepts it or answers
\* parse_error; and a get_rules that returns while the latest registration
\* of a name was rejected reports the records scanned from the rejected
\* text under that name.
C19_StoredDespiteParseError ==
    /\ \A p \in Procs :
          epc[p] \in {"ap_engine_add", "ap_return"} =>
              /\ call[p].name \in DOMAIN policies
              /\ policies[call[p].name] = call[p].source
    /\ \A q \in Procs :
          epc[q] = "gr_return" =>
              \A n \in DOMAIN last_outcome :
                  last_outcome[n] = "parse_error" =>
                      /\ n \in DOMAIN ret[q].value
                      /\ ret[q].value[n] = parse_rules(last_registered[n])

\* get_rules returns records for a name whose only registrations the engine
\* has rejected.
C19_Witness ==
    \E q \in Procs, p \in Procs :
        /\ epc[q] = "gr_return"
        /\ epc[p] = "idle"
        /\ call[p].op = "add_policy"
        /\ ret[p] = Returned("error", "parse_error")
        /\ call[p].name \in DOMAIN last_outcome
        /\ last_outcome[call[p].name] = "parse_error"
        /\ call[p].name \notin engine_policies
        /\ ret[q].value[call[p].name] = parse_rules(call[p].source)
        /\ ret[q].value[call[p].name] # <<>>

----------------------------------------------------------------------------
(* C20 *)

\* Process p holds the result of a get_rules call.
HasRules(p) == call[p].op = "get_rules" /\ ret[p].tag = "ok"

\* C20: only add_policy changes the policy store: a step changes it only if
\* it is the insert of an add_policy call, and no step takes a name out of
\* it; so the names a get_rules returns include those of every get_rules
\* result obtained before, and two get_rules results with no insert between
\* them are the same mapping.
C20_OnlyAddPolicyChangesStore ==
    [][/\ policies' # policies
             => \E p \in Procs : /\ call[p].op = "add_policy"
                                 /\ epc[p] = "ap_insert"
                                 /\ epc'[p] = "ap_engine_add"
       /\ \A n \in DOMAIN policies : n \in DOMAIN policies'
       /\ \A q \in Procs :
             (epc[q] = "gr_build" /\ epc'[q] = "gr_return") =>
                 \A p \in Procs :
                     /\ HasRules(p) =>
                           \A n \in DOMAIN ret[p].value : n \in DOMAIN ret'[q].value
                     /\ seen[p].tag = "ok" => ret'[q].value = seen[p].value]_vars

\* A process has got a non-empty mapping from get_rules and has since run
\* clear_data; another process's get_rules has built its result, with no
\* insert since the first.
C20_Witness ==
    \E p \in Procs, q \in Procs :
        /\ p # q
        /\ seen[p].tag = "ok"
        /\ DOMAIN seen[p].value = PolicyNames
        /\ call[p].op = "clear_data"
        /\ epc[p] = "idle"
        /\ ret[p].tag = "ok"
        /\ epc[q] = "gr_return"
        /\ seen[q].tag = "ok"

====
